---- MODULE Spec2Model ----
(***************************************************************************)
(* Model of target_shift.py: the strokes-gained baseline SGP_array, the   *)
(* shot sampler shot_simulation / get_prox, the discrete comparison        *)
(* run_targets and the sensitivity sweep expectation_sensitivity.         *)
(*                                                                         *)
(* Number representation.  Aim offsets and shot coordinates are exact      *)
(* rationals <<numerator, denominator>> in feet.  A proximity is an        *)
(* integer count of 1/Unit feet (np.sqrt rounded down to that grid).  A    *)
(* score is an integer count of millionths (np.log10 rounded to 1e-6).     *)
(* np.mean / np.median of an empty array are nan, kept as a flag.          *)
(***************************************************************************)
EXTENDS Integers, Sequences, FiniteSets, TLC

VARIABLES rng, pc, args, outcome, x, preds, shots, prox, draws,
          r, step, dist_mean, dist_median, s_mean, s_median, plotted, prev,
          hists

vars == <<rng, pc, args, outcome, x, preds, shots, prox, draws,
          r, step, dist_mean, dist_median, s_mean, s_median, plotted, prev,
          hists>>

(***************************************************************************)
(* Bounds of the model.                                                    *)
(***************************************************************************)
MaxDist == 20
MaxBatch == 3
MaxN == 2
MaxVar == 2
MaxSteps == 3
MaxRange == 3
RngMod == 9

(***************************************************************************)
(* Fixed-point scales and the constants of the scoring function.           *)
(***************************************************************************)
Unit == 2
One == 1000000

None == <<>>

\* np.log10(d / Unit) in millionths, for d = 1 .. 90 (0.5 ft .. 45 ft)
Log10Table ==
  << -301030, 0, 176091, 301030, 397940, 477121, 544068, 602060, 653213, 698970,
     740363, 778151, 812913, 845098, 875061, 903090, 929419, 954243, 977724, 1000000,
     1021189, 1041393, 1060698, 1079181, 1096910, 1113943, 1130334, 1146128, 1161368, 1176091,
     1190332, 1204120, 1217484, 1230449, 1243038, 1255273, 1267172, 1278754, 1290035, 1301030,
     1311754, 1322219, 1332438, 1342423, 1352183, 1361728, 1371068, 1380211, 1389166, 1397940,
     1406540, 1414973, 1423246, 1431364, 1439333, 1447158, 1454845, 1462398, 1469822, 1477121,
     1484300, 1491362, 1498311, 1505150, 1511883, 1518514, 1525045, 1531479, 1537819, 1544068,
     1550228, 1556303, 1562293, 1568202, 1574031, 1579784, 1585461, 1591065, 1596597, 1602060,
     1607455, 1612784, 1618048, 1623249, 1628389, 1633468, 1638489, 1643453, 1648360, 1653213 >>

log10(d) == Log10Table[d]

(***************************************************************************)
(* SGP_array(x): flag = x <= 1; preds = zeros; preds[flag] = 1;            *)
(* preds[~flag] = 1 + 0.65*log10(x[~flag]).                                *)
(***************************************************************************)
SGP_array_NoFloor(xs) ==
  LET flag == [i \in 1..Len(xs) |-> xs[i] <= Unit]
      preds0 == [i \in 1..Len(xs) |-> 0]
  IN  [i \in 1..Len(xs) |->
         IF ~flag[i] THEN One + (65 * log10(xs[i])) \div 100 ELSE preds0[i]]

SGP_array_Minus(xs) ==
  LET flag == [i \in 1..Len(xs) |-> xs[i] <= Unit]
  IN  [i \in 1..Len(xs) |->
         IF ~flag[i] THEN One - (65 * log10(xs[i])) \div 100 ELSE One]

SGP_array(xs) ==
  LET flag == [i \in 1..Len(xs) |-> xs[i] <= Unit]
      preds0 == [i \in 1..Len(xs) |-> 0]
      preds1 == [i \in 1..Len(xs) |-> IF flag[i] THEN One ELSE preds0[i]]
  IN  [i \in 1..Len(xs) |->
         IF ~flag[i] THEN One + (65 * log10(xs[i])) \div 100 ELSE preds1[i]]

(***************************************************************************)
(* Rational helpers.                                                       *)
(***************************************************************************)
RAdd(q, n) == <<q[1] + q[2] * n, q[2]>>
RLeq(p, q) == p[1] * q[2] <= q[1] * p[2]

RECURSIVE IsqrtFrom(_, _)
IsqrtFrom(m, s) == IF (s + 1) * (s + 1) > m THEN s ELSE IsqrtFrom(m, s + 1)

\* np.sqrt on non-negative integers, rounded down
sqrt(m) == IsqrtFrom(m, 0)

RECURSIVE Sum(_)
Sum(s) == IF s = <<>> THEN 0 ELSE Head(s) + Sum(Tail(s))

RECURSIVE Insert(_, _)
Insert(v, s) ==
  IF s = <<>> THEN <<v>>
  ELSE IF v <= Head(s) THEN <<v>> \o s
  ELSE <<Head(s)>> \o Insert(v, Tail(s))

RECURSIVE Sort(_)
Sort(s) == IF s = <<>> THEN <<>> ELSE Insert(Head(s), Sort(Tail(s)))

\* np.mean: nan on an empty array
mean(s) ==
  IF Len(s) = 0 THEN [nan |-> TRUE, v |-> 0]
  ELSE [nan |-> FALSE, v |-> Sum(s) \div Len(s)]

\* np.median: middle of the sorted array, mean of the two middles if even
median(s) ==
  LET t == Sort(s)
      n == Len(s)
  IN  IF n = 0 THEN [nan |-> TRUE, v |-> 0]
      ELSE IF n % 2 = 1 THEN [nan |-> FALSE, v |-> t[(n + 1) \div 2]]
      ELSE [nan |-> FALSE, v |-> (t[n \div 2] + t[n \div 2 + 1]) \div 2]

(***************************************************************************)
(* The global numpy random state.  One state yields one standard-normal    *)
(* pair (here from {-1,0,1}^2) and steps to the next state.                *)
(***************************************************************************)
NextRng(s) == (4 * s + 1) % RngMod
Z(s) == <<(s % 3) - 1, ((s \div 3) % 3) - 1>>

\* np.random.multivariate_normal(mean, cov, size) from state s:
\* sample = mean + z * sqrt(cov) for a diagonal cov
RECURSIVE multivariate_normal(_, _, _, _)
multivariate_normal(mu, cov, size, s) ==
  IF size = 0 THEN [shots |-> <<>>, rng |-> s]
  ELSE LET z == Z(s)
           v == << RAdd(mu[1], sqrt(cov[1][1]) * z[1]),
                   RAdd(mu[2], sqrt(cov[2][2]) * z[2]) >>
           rest == multivariate_normal(mu, cov, size - 1, NextRng(s))
       IN  [shots |-> <<v>> \o rest.shots, rng |-> rest.rng]

zeros2 == << <<0, 1>>, <<0, 1>> >>
identity2 == << <<1, 0>>, <<0, 1>> >>
Scale(c, m) == [i \in 1..2 |-> [j \in 1..2 |-> c * m[i][j]]]

(***************************************************************************)
(* shot_simulation(mu, cov, n, var) from random state s.  call is the      *)
(* argument list handed to np.random.multivariate_normal.                  *)
(***************************************************************************)
shot_simulation_Sigma(mu, cov, n, var, s) ==
  LET mu1 == IF mu = None THEN zeros2 ELSE mu
      cov1 == IF cov = None THEN Scale(var, identity2) ELSE cov
      res == multivariate_normal(mu1, cov1, n, s)
  IN  [call |-> [mean |-> mu1, cov |-> cov1, size |-> n],
       shots |-> res.shots, rng |-> res.rng]

shot_simulation(mu, cov, n, var, s) ==
  LET mu1 == IF mu = None THEN zeros2 ELSE mu
      cov1 == IF cov = None THEN Scale(var * var, identity2) ELSE cov
      res == multivariate_normal(mu1, cov1, n, s)
  IN  [call |-> [mean |-> mu1, cov |-> cov1, size |-> n],
       shots |-> res.shots, rng |-> res.rng]

\* x*x + y*y of a rational vector, in (1/Unit ft)^2, rounded down
NormSq(v) ==
  LET a == v[1][1]
      b == v[1][2]
      c == v[2][1]
      d == v[2][2]
  IN  (Unit * Unit * (a * a * d * d + c * c * b * b)) \div (b * b * d * d)

get_prox_Manhattan(sh) ==
  [i \in 1..Len(sh) |->
     LET a == sh[i][1][1]
         b == sh[i][1][2]
         c == sh[i][2][1]
         d == sh[i][2][2]
         absa == IF a < 0 THEN -a ELSE a
         absc == IF c < 0 THEN -c ELSE c
     IN  (Unit * (absa * d + absc * b)) \div (b * d)]

\* get_prox(shots) = np.sqrt(shots[:,0]**2 + shots[:,1]**2)
get_prox(sh) == [i \in 1..Len(sh) |-> sqrt(NormSq(sh[i]))]

(***************************************************************************)
(* Input sets.                                                             *)
(***************************************************************************)
RECURSIVE SeqsUpTo(_, _)
SeqsUpTo(S, n) ==
  IF n = 0 THEN {<<>>}
  ELSE LET shorter == SeqsUpTo(S, n - 1)
       IN  shorter \cup {Append(s, e) : s \in {t \in shorter : Len(t) = n - 1}, e \in S}

Dists == 0..MaxDist
Batches == SeqsUpTo(Dists, MaxBatch)
Rngs == 0..(RngMod - 1)
Ns == 0..MaxN
Vars == (-1)..MaxVar
Covs == {None, << <<4, 0>>, <<0, 1>> >>}
Mus == {None, zeros2, << <<3, 1>>, <<-4, 1>> >>, << <<1, 2>>, <<0, 1>> >>}

NoArgs == [fn |-> "none", mu |-> None, cov |-> None, n |-> 0, var |-> 0,
           target_range |-> 0, num_steps |-> 0]

\* nothing called yet: every local and every record of a call is empty
Blank ==
  /\ args = NoArgs
  /\ outcome = "none"
  /\ x = <<>>
  /\ preds = <<>>
  /\ shots = <<>>
  /\ prox = <<>>
  /\ draws = <<>>
  /\ r = [den |-> 1, num |-> <<>>]
  /\ step = 0
  /\ dist_mean = <<>>
  /\ dist_median = <<>>
  /\ s_mean = <<>>
  /\ s_median = <<>>
  /\ plotted = None
  /\ prev = None
  /\ hists = <<>>

(***************************************************************************)
(* SpecScore: the scoring function applied to a batch of distances.        *)
(***************************************************************************)
ScoreInit ==
  /\ rng = 0
  /\ pc = "score"
  /\ args = NoArgs
  /\ outcome = "none"
  /\ x \in Batches
  /\ preds = <<>>
  /\ shots = <<>>
  /\ prox = <<>>
  /\ draws = <<>>
  /\ r = [den |-> 1, num |-> <<>>]
  /\ step = 0
  /\ dist_mean = <<>>
  /\ dist_median = <<>>
  /\ s_mean = <<>>
  /\ s_median = <<>>
  /\ plotted = None
  /\ prev = None
  /\ hists = <<>>

Score ==
  /\ pc = "score"
  /\ preds' = SGP_array(x)
  /\ pc' = "scored"
  /\ outcome' = "ok"
  /\ UNCHANGED <<rng, args, x, shots, prox, draws, r, step, dist_mean,
                 dist_median, s_mean, s_median, plotted, prev, hists>>

ScoreNext == Score

SpecScore == ScoreInit /\ [][ScoreNext]_vars

\* C1: every distance d <= 1 ft of the batch scores exactly the floor 1.0
C1_FloorBelowOne ==
  pc = "scored" =>
    /\ Len(preds) = Len(x)
    /\ \A i \in 1..Len(x) : x[i] <= Unit => preds[i] = One

C1_Witness ==
  /\ pc = "scored"
  /\ Len(x) = 3
  /\ x[1] = 0
  /\ x[2] = Unit
  /\ x[3] = 1
  /\ preds = <<One, One, One>>

\* C2: above 1 ft the score is 1 + 0.65*log10(d), strictly increasing, and
\* its second difference over equally spaced distances is negative
C2_IncreasingConcave ==
  pc = "scored" =>
    /\ \A i \in 1..Len(x) :
         x[i] > Unit => preds[i] = One + (65 * log10(x[i])) \div 100
    /\ \A i, j \in 1..Len(x) :
         (Unit < x[i] /\ x[i] < x[j]) => preds[i] < preds[j]
    /\ \A i, j, k \in 1..Len(x) :
         (Unit < x[i] /\ x[i] < x[j] /\ x[j] - x[i] = x[k] - x[j])
           => preds[k] - 2 * preds[j] + preds[i] < 0

C2_Witness ==
  /\ pc = "scored"
  /\ Len(x) = 3
  /\ x[1] = Unit + 1
  /\ x[2] = Unit + 8
  /\ x[3] = Unit + 15
  /\ preds[1] < preds[2]
  /\ preds[2] < preds[3]

(***************************************************************************)
(* SpecSampler: shot_simulation followed by get_prox, as in                *)
(* prox = get_prox(shot_simulation()).                                     *)
(***************************************************************************)
SamplerInit ==
  /\ Blank
  /\ rng \in Rngs
  /\ pc = "idle"

ShotSimulation ==
  /\ pc \in {"idle", "sampled", "measured"}
  /\ \E mu \in Mus, cov \in Covs, n \in Ns, var \in Vars :
       LET res == shot_simulation(mu, cov, n, var, rng)
       IN  /\ args' = [NoArgs EXCEPT !.fn = "shot_simulation", !.mu = mu,
                                     !.cov = cov, !.n = n, !.var = var]
           /\ shots' = res.shots
           /\ draws' = <<[mean |-> res.call.mean, cov |-> res.call.cov,
                           size |-> res.call.size, shots |-> res.shots]>>
           /\ rng' = res.rng
  /\ prox' = <<>>
  /\ pc' = "sampled"
  /\ outcome' = "ok"
  /\ UNCHANGED <<x, preds, r, step, dist_mean, dist_median, s_mean, s_median,
                 plotted, prev, hists>>

GetProx ==
  /\ pc = "sampled"
  /\ prox' = get_prox(shots)
  /\ pc' = "measured"
  /\ UNCHANGED <<rng, args, outcome, x, preds, shots, draws, r, step,
                 dist_mean, dist_median, s_mean, s_median, plotted, prev, hists>>

SamplerNext == ShotSimulation \/ GetProx

SpecSampler == SamplerInit /\ [][SamplerNext]_vars

\* C6: a non-positive standard deviation var is answered with an error and
\* no batch is drawn
C6_NonPositiveDispersionFails ==
  (args.fn = "shot_simulation" /\ args.var <= 0) =>
    (outcome = "error" /\ draws = <<>>)

\* C7: get_prox returns one value per vector, the Euclidean norm of that
\* vector (on the 1/Unit ft grid), never negative; [(0,0)] gives [0]; an
\* empty batch (n = 0) gives an empty result and no error
C7_ProxIsNorm ==
  pc = "measured" =>
    /\ Len(prox) = Len(shots)
    /\ \A i \in 1..Len(shots) :
         LET a == shots[i][1][1]
             b == shots[i][1][2]
             c == shots[i][2][1]
             d == shots[i][2][2]
             p == prox[i]
         IN  /\ p >= 0
             /\ p * p * b * b * d * d <= Unit * Unit * (a * a * d * d + c * c * b * b)
             /\ Unit * Unit * (a * a * d * d + c * c * b * b) < (p + 1) * (p + 1) * b * b * d * d
    /\ (Len(shots) = 1 /\ shots[1][1][1] = 0 /\ shots[1][2][1] = 0) => prox = <<0>>
    /\ args.n = 0 => (shots = <<>> /\ prox = <<>> /\ outcome = "ok")

C7_Witness ==
  /\ pc = "measured"
  /\ Len(shots) = 2
  /\ shots[1] = << <<3, 1>>, <<-4, 1>> >>
  /\ prox[1] = 5 * Unit
  /\ shots[2][1][1] # 3
  /\ prox[2] > 0

linspace_NoEndpoint(stop, num) ==
  LET den == IF num > 0 THEN num ELSE 1
  IN  [den |-> den, num |-> [i \in 1..num |-> (i - 1) * stop]]

linspace(stop, num) ==
  LET div == num - 1
      den == IF div > 0 THEN div ELSE 1
      y == [i \in 1..num |-> (i - 1) * stop]
  IN  [den |-> den,
       num |-> IF num > 1 THEN [y EXCEPT ![num] = stop * den] ELSE y]

Draw(res) == [mean |-> res.call.mean, cov |-> res.call.cov,
              size |-> res.call.size, shots |-> res.shots]

(***************************************************************************)
(* Spec: expectation_sensitivity(target_range, cov, n, num_steps, var),    *)
(* one step per iteration of "for target in r".                            *)
(***************************************************************************)
Init ==
  /\ Blank
  /\ rng \in Rngs
  /\ pc = "idle"

\* lines 156-162: r = np.linspace(...), the four empty lists
SweepStart ==
  /\ pc = "idle"
  /\ \E target_range \in 0..MaxRange, cov \in Covs, n \in Ns,
        num_steps \in (-1)..MaxSteps, var \in Vars :
       LET a == [NoArgs EXCEPT !.fn = "expectation_sensitivity",
                               !.target_range = target_range, !.cov = cov,
                               !.n = n, !.num_steps = num_steps, !.var = var]
       IN  /\ args' = a
           /\ IF num_steps < 0
              THEN /\ r' = [den |-> 1, num |-> <<>>]
                   /\ outcome' = "ValueError"
                   /\ pc' = "idle"
                   /\ prev' = None
              ELSE /\ r' = linspace(target_range, num_steps)
                   /\ outcome' = "running"
                   /\ pc' = "sweep"
                   /\ prev' = IF plotted # None /\ a = args THEN plotted ELSE None
  /\ step' = 0
  /\ dist_mean' = <<>>
  /\ dist_median' = <<>>
  /\ s_mean' = <<>>
  /\ s_median' = <<>>
  /\ draws' = <<>>
  /\ shots' = <<>>
  /\ prox' = <<>>
  /\ preds' = <<>>
  /\ plotted' = None
  /\ UNCHANGED <<rng, x, hists>>

\* lines 163-171 with the score computed from a second, fresh batch
SweepStep_Redraw ==
  /\ pc = "sweep"
  /\ step < Len(r.num)
  /\ LET target == <<r.num[step + 1], r.den>>
         mu == <<target, <<0, 1>>>>
         res == shot_simulation(mu, args.cov, args.n, args.var, rng)
         res2 == shot_simulation(mu, args.cov, args.n, args.var, res.rng)
         p == get_prox(res.shots)
         strokes == SGP_array(get_prox(res2.shots))
     IN  /\ rng' = res2.rng
         /\ shots' = res2.shots
         /\ draws' = draws \o <<Draw(res), Draw(res2)>>
         /\ prox' = p
         /\ dist_mean' = Append(dist_mean, mean(p))
         /\ dist_median' = Append(dist_median, median(p))
         /\ preds' = strokes
         /\ s_mean' = Append(s_mean, mean(strokes))
         /\ s_median' = Append(s_median, median(strokes))
  /\ step' = step + 1
  /\ UNCHANGED <<pc, args, outcome, x, r, plotted, prev, hists>>

\* lines 163-171: one iteration of the loop
SweepStep ==
  /\ pc = "sweep"
  /\ step < Len(r.num)
  /\ LET target == <<r.num[step + 1], r.den>>
         mu == <<target, <<0, 1>>>>
         res == shot_simulation(mu, args.cov, args.n, args.var, rng)
         p == get_prox(res.shots)
         strokes == SGP_array(p)
     IN  /\ rng' = res.rng
         /\ shots' = res.shots
         /\ draws' = Append(draws, Draw(res))
         /\ prox' = p
         /\ dist_mean' = Append(dist_mean, mean(p))
         /\ dist_median' = Append(dist_median, median(p))
         /\ preds' = strokes
         /\ s_mean' = Append(s_mean, mean(strokes))
         /\ s_median' = Append(s_median, median(strokes))
  /\ step' = step + 1
  /\ UNCHANGED <<pc, args, outcome, x, r, plotted, prev, hists>>

\* lines 173-188: the four sequences are plotted against r
SweepEnd ==
  /\ pc = "sweep"
  /\ step = Len(r.num)
  /\ plotted' = [r |-> r, dist_mean |-> dist_mean, dist_median |-> dist_median,
                 s_mean |-> s_mean, s_median |-> s_median]
  /\ pc' = "idle"
  /\ outcome' = "ok"
  /\ UNCHANGED <<rng, args, x, preds, shots, prox, draws, r, step, dist_mean,
                 dist_median, s_mean, s_median, prev, hists>>

Next == SweepStart \/ SweepStep \/ SweepEnd

Spec == Init /\ [][Next]_vars

InSweep == args.fn = "expectation_sensitivity" /\ outcome # "ValueError"

\* C3: two completed sweeps with identical parameters plot identical
\* statistic sequences
C3_Reproducible ==
  (InSweep /\ pc = "idle" /\ outcome = "ok" /\ prev # None) => plotted = prev

\* C4: for num_steps >= 2 the sweep has exactly num_steps offsets, the first
\* 0, the last offset_range, consecutive ones offset_range/(num_steps-1) apart
C4_Linspace ==
  (InSweep /\ args.num_steps >= 2) =>
    /\ Len(r.num) = args.num_steps
    /\ r.den > 0
    /\ r.num[1] = 0
    /\ r.num[args.num_steps] = args.target_range * r.den
    /\ \A i \in 1..(args.num_steps - 1) :
         (r.num[i + 1] - r.num[i]) * (args.num_steps - 1)
           = args.target_range * r.den

C4_Witness ==
  /\ InSweep
  /\ args.num_steps = 3
  /\ args.target_range = 3
  /\ r = [den |-> 2, num |-> <<0, 3, 6>>]
  /\ step = 2

\* C5: a sweep called with num_steps < 2 has ended in an error once it
\* returns, with no batch drawn and no statistic produced
C5_TooFewStepsFails ==
  (args.fn = "expectation_sensitivity" /\ args.num_steps < 2 /\ pc = "idle") =>
    /\ outcome = "ValueError"
    /\ draws = <<>>
    /\ dist_mean = <<>>
    /\ plotted = None

\* C10: during a sweep the four result sequences have the length of the
\* number of offsets processed; entry i comes from the one batch drawn with
\* mean (offsets[i], 0), scores from that batch's proximities; offsets are
\* taken in ascending order, and at the end all num_steps are processed
C10_SweepInvariant ==
  InSweep =>
    /\ step <= Len(r.num)
    /\ Len(dist_mean) = step
    /\ Len(dist_median) = step
    /\ Len(s_mean) = step
    /\ Len(s_median) = step
    /\ Len(draws) = step
    /\ \A i \in 1..step :
         LET p == get_prox(draws[i].shots)
         IN  /\ draws[i].mean = << <<r.num[i], r.den>>, <<0, 1>> >>
             /\ draws[i].size = args.n
             /\ Len(draws[i].shots) = args.n
             /\ dist_mean[i] = mean(p)
             /\ dist_median[i] = median(p)
             /\ s_mean[i] = mean(SGP_array(p))
             /\ s_median[i] = median(SGP_array(p))
    /\ \A i \in 1..(step - 1) : RLeq(draws[i].mean[1], draws[i + 1].mean[1])
    /\ (pc = "idle" /\ outcome = "ok") =>
         /\ step = args.num_steps
         /\ plotted.dist_mean = dist_mean
         /\ plotted.dist_median = dist_median
         /\ plotted.s_mean = s_mean
         /\ plotted.s_median = s_median

C10_Witness ==
  /\ InSweep
  /\ pc = "idle"
  /\ outcome = "ok"
  /\ args.num_steps = 3
  /\ args.target_range = 3
  /\ args.n = 2
  /\ args.var = 2
  /\ step = 3
  /\ Len(draws) = 3
  /\ draws[1].shots # draws[2].shots
  /\ ~s_mean[3].nan
  /\ s_mean[3].v > One

(***************************************************************************)
(* SpecTargets: run_targets(mu, cov, n, var), one step per iteration of    *)
(* "for i, target in enumerate([0, 10, 20, 30])".                          *)
(***************************************************************************)
Targets == <<0, 10, 20, 30>>

\* lines 120-121
TargetsStart ==
  /\ pc = "idle"
  /\ \E mu \in Mus, cov \in Covs, n \in Ns, var \in Vars :
       args' = [NoArgs EXCEPT !.fn = "run_targets", !.mu = mu, !.cov = cov,
                              !.n = n, !.var = var]
  /\ step' = 0
  /\ hists' = <<>>
  /\ draws' = <<>>
  /\ shots' = <<>>
  /\ prox' = <<>>
  /\ preds' = <<>>
  /\ pc' = "targets"
  /\ outcome' = "running"
  /\ UNCHANGED <<rng, x, r, dist_mean, dist_median, s_mean, s_median, plotted,
                 prev>>

\* lines 122-141 keeping a mean vector the caller passed
TargetsStep_KeepMu ==
  /\ pc = "targets"
  /\ step < Len(Targets)
  /\ LET target == Targets[step + 1]
         mu == IF args.mu # None THEN args.mu ELSE << <<target, 1>>, <<0, 1>> >>
         res == shot_simulation(mu, args.cov, args.n, args.var, rng)
         p == get_prox(res.shots)
         strokes == SGP_array(p)
     IN  /\ rng' = res.rng
         /\ shots' = res.shots
         /\ draws' = Append(draws, Draw(res))
         /\ prox' = p
         /\ preds' = strokes
         /\ hists' = Append(hists,
              [target |-> target, prox |-> p, prox_mean |-> mean(p),
               prox_median |-> median(p), strokes |-> strokes,
               strokes_mean |-> mean(strokes),
               strokes_median |-> median(strokes)])
  /\ step' = step + 1
  /\ UNCHANGED <<pc, args, outcome, x, r, dist_mean, dist_median, s_mean,
                 s_median, plotted, prev>>

\* lines 122-141: one iteration of the loop, both histograms of one row
TargetsStep ==
  /\ pc = "targets"
  /\ step < Len(Targets)
  /\ LET target == Targets[step + 1]
         mu == << <<target, 1>>, <<0, 1>> >>
         res == shot_simulation(mu, args.cov, args.n, args.var, rng)
         p == get_prox(res.shots)
         strokes == SGP_array(p)
     IN  /\ rng' = res.rng
         /\ shots' = res.shots
         /\ draws' = Append(draws, Draw(res))
         /\ prox' = p
         /\ preds' = strokes
         /\ hists' = Append(hists,
              [target |-> target, prox |-> p, prox_mean |-> mean(p),
               prox_median |-> median(p), strokes |-> strokes,
               strokes_mean |-> mean(strokes),
               strokes_median |-> median(strokes)])
  /\ step' = step + 1
  /\ UNCHANGED <<pc, args, outcome, x, r, dist_mean, dist_median, s_mean,
                 s_median, plotted, prev>>

\* line 142
TargetsEnd ==
  /\ pc = "targets"
  /\ step = Len(Targets)
  /\ pc' = "idle"
  /\ outcome' = "ok"
  /\ UNCHANGED <<rng, args, x, preds, shots, prox, draws, r, step, dist_mean,
                 dist_median, s_mean, s_median, plotted, prev, hists>>

TargetsNext == TargetsStart \/ TargetsStep \/ TargetsEnd

SpecTargets == Init /\ [][TargetsNext]_vars

====
